---- MODULE Spec2Model ----
(***************************************************************************)
(* Hikvision vehicle sync: a model of src/unnamed/part_000 (the            *)
(* multi-camera variant; src/index.js is the same code for one camera and  *)
(* one fixed table).                                                       *)
(*                                                                         *)
(* Instants are seconds since the Unix epoch (a JS Date, cut to seconds).  *)
(* A wall clock value is an instant shifted by a zone's UTC offset.        *)
(* Strings that the code indexes (captureTime) are sequences of            *)
(* one-character strings; all other texts are atoms.                       *)
(***************************************************************************)
EXTENDS Integers, Sequences, FiniteSets, TLC

(***************************************************************************)
(* Calendar arithmetic (proleptic Gregorian), as moment and Date do it.    *)
(***************************************************************************)
SecondsPerMinute == 60
MinutesPerHour == 60
HoursPerDay == 24
SecondsPerHour == SecondsPerMinute * MinutesPerHour
SecondsPerDay == SecondsPerHour * HoursPerDay

\* Asia/Jerusalem's UTC offset in hours: standard time (IST); every date of
\* the model lies in January, outside daylight saving time.
JerusalemOffsetHours == 2
JerusalemOffset == JerusalemOffsetHours * SecondsPerHour

Min(a, b) == IF a <= b THEN a ELSE b

IsLeapYear(y) == (y % 4 = 0 /\ y % 100 # 0) \/ y % 400 = 0

DaysInMonth(y, m) ==
    IF m = 2 THEN (IF IsLeapYear(y) THEN 29 ELSE 28)
    ELSE IF m \in {4, 6, 9, 11} THEN 30 ELSE 31

\* Days from 1970-01-01 to the civil date y-m-d.
DaysFromCivil(y, m, d) ==
    LET yy  == IF m <= 2 THEN y - 1 ELSE y
        era == yy \div 400
        yoe == yy - era * 400
        mp  == IF m > 2 THEN m - 3 ELSE m + 9
        doy == (153 * mp + 2) \div 5 + d - 1
        doe == yoe * 365 + yoe \div 4 - yoe \div 100 + doy
    IN  era * 146097 + doe - 719468

\* The civil date of day number z (days since 1970-01-01).
CivilFromDays(z) ==
    LET zz  == z + 719468
        era == zz \div 146097
        doe == zz - era * 146097
        yoe == (doe - doe \div 1460 + doe \div 36524 - doe \div 146096) \div 365
        doy == doe - (365 * yoe + yoe \div 4 - yoe \div 100)
        mp  == (5 * doy + 2) \div 153
        d   == doy - (153 * mp + 2) \div 5 + 1
        m   == IF mp < 10 THEN mp + 3 ELSE mp - 9
        y   == yoe + era * 400 + (IF m <= 2 THEN 1 ELSE 0)
    IN  [year |-> y, month |-> m, day |-> d]

\* The broken-down fields of a wall clock value.
WallFields(w) ==
    LET days == w \div SecondsPerDay
        sod  == w % SecondsPerDay
        c    == CivilFromDays(days)
    IN  [year |-> c.year, month |-> c.month, day |-> c.day,
         hour |-> sod \div SecondsPerHour,
         minute |-> (sod % SecondsPerHour) \div SecondsPerMinute,
         second |-> sod % SecondsPerMinute]

\* The wall clock value of broken-down fields.
FieldsWall(f) ==
    DaysFromCivil(f.year, f.month, f.day) * SecondsPerDay
        + f.hour * SecondsPerHour + f.minute * SecondsPerMinute + f.second

\* new Date(); today.setHours(0, 0, 0, 0): midnight of the current day of the
\* zone the process runs in (offset tzOff), as an instant.
StartOfLocalDay(t, tzOff) ==
    ((t + tzOff) \div SecondsPerDay) * SecondsPerDay - tzOff

\* moment(fromTime).tz('Asia/Jerusalem').format('YYYY-MM-DDTHH:mm:ss'): the
\* fields that the picTime element of the request carries.
FormatPicTime(fromTime) == WallFields(fromTime + JerusalemOffset)

(***************************************************************************)
(* Decoding of the device's captureTime string.                            *)
(***************************************************************************)
Digits == <<"0", "1", "2", "3", "4", "5", "6", "7", "8", "9">>

IsDigit(c) == \E i \in 1..Len(Digits) : Digits[i] = c

DigitValue(c) == (CHOOSE i \in 1..Len(Digits) : Digits[i] = c) - 1

AllDigits(s) == \A i \in 1..Len(s) : IsDigit(s[i])

RECURSIVE ToNumber(_)
ToNumber(s) ==
    IF s = <<>> THEN 0
    ELSE ToNumber(SubSeq(s, 1, Len(s) - 1)) * 10 + DigitValue(s[Len(s)])

\* A substring that takes the character at end too.
SubstringInclusive(s, start, end) ==
    SubSeq(s, Min(start, Len(s)) + 1, Min(end + 1, Len(s)))

\* String.prototype.substring(start, end): 0-based, end exclusive, both
\* clamped to the length.
Substring(s, start, end) == SubSeq(s, Min(start, Len(s)) + 1, Min(end, Len(s)))

\* The Date of an invalid moment (NaN).
InvalidDate == -1

\* The fields of an ISO 8601 text are in range (hour 24 only as 24:00:00).
InRange(f) ==
    /\ f.month \in 1..12
    /\ f.day \in 1..DaysInMonth(f.year, f.month)
    /\ f.minute \in 0..59 /\ f.second \in 0..59
    /\ \/ f.hour \in 0..23
       \/ f.hour = 24 /\ f.minute = 0 /\ f.second = 0

\* moment.tz(text, 'Asia/Jerusalem').toDate() of a text with fields f.
ZonedInstant(f) ==
    IF InRange(f) THEN FieldsWall(f) - JerusalemOffset ELSE InvalidDate

\* A decoder that reads the text as UTC.
DecodeCaptureTimeAsUTC(captureTimeStr) ==
    LET f == [year   |-> ToNumber(Substring(captureTimeStr, 0, 4)),
              month  |-> ToNumber(Substring(captureTimeStr, 4, 6)),
              day    |-> ToNumber(Substring(captureTimeStr, 6, 8)),
              hour   |-> ToNumber(Substring(captureTimeStr, 9, 11)),
              minute |-> ToNumber(Substring(captureTimeStr, 11, 13)),
              second |-> ToNumber(Substring(captureTimeStr, 13, 15))]
    IN  IF Len(captureTimeStr) >= 15 /\ AllDigits(Substring(captureTimeStr, 9, 15))
           /\ AllDigits(Substring(captureTimeStr, 0, 8)) /\ InRange(f)
        THEN FieldsWall(f)
        ELSE InvalidDate

\* Lines 107-116: six positional substrings, joined as an ISO 8601 text and
\* parsed in Asia/Jerusalem. The text parses when every part has its full
\* width in digits and the fields are in range; anything else gives an
\* invalid moment.
DecodeCaptureTime(captureTimeStr) ==
    LET year   == Substring(captureTimeStr, 0, 4)
        month  == Substring(captureTimeStr, 4, 6)
        day    == Substring(captureTimeStr, 6, 8)
        hour   == Substring(captureTimeStr, 9, 11)
        minute == Substring(captureTimeStr, 11, 13)
        second == Substring(captureTimeStr, 13, 15)
        shaped == /\ Len(year) = 4 /\ Len(month) = 2 /\ Len(day) = 2
                  /\ Len(hour) = 2 /\ Len(minute) = 2 /\ Len(second) = 2
                  /\ AllDigits(year) /\ AllDigits(month) /\ AllDigits(day)
                  /\ AllDigits(hour) /\ AllDigits(minute) /\ AllDigits(second)
        texts  == {[year |-> ToNumber(year), month |-> ToNumber(month),
                    day |-> ToNumber(day), hour |-> ToNumber(hour),
                    minute |-> ToNumber(minute), second |-> ToNumber(second)]}
    IN  IF shaped
        THEN CHOOSE t \in {ZonedInstant(f) : f \in texts} : TRUE
        ELSE InvalidDate

(***************************************************************************)
(* Configuration and bounds.                                               *)
(***************************************************************************)
\* main, lines 216-238: the configured cameras, each with its own table.
Cameras ==
    << [name |-> "Camera1", tableName |-> "VehicleDetection"],
       [name |-> "Camera2", tableName |-> "VehicleDetection2"] >>

TableNames == {Cameras[i].tableName : i \in 1..Len(Cameras)}

\* parseInt(process.env.SYNC_INTERVAL_MINUTES) || 2
IntervalMinutes == 2

\* Invocations of syncAllCameras in one life of the process (the initial one
\* and the scheduler's ticks).
MaxRuns == 3

\* The same, when every invocation ends before the next tick.
MaxSeqRuns == 2

\* Store statements (SELECT or INSERT) that fail with a store error.
MaxStoreFaults == 1

\* The summaries of finished cycles kept per table.
HistoryLen == 2

Runs == 1..MaxRuns

\* UTC offsets of the zone the process runs in: UTC and Asia/Jerusalem.
ProcessOffsets == {0, JerusalemOffset}

\* The instant the process starts: 2024-01-15 21:59:00 UTC, which is
\* 23:59:00 of the same day in Asia/Jerusalem; one tick later the
\* Jerusalem day is 2024-01-16.
StartInstant ==
    DaysFromCivil(2024, 1, 15) * SecondsPerDay + 21 * SecondsPerHour
        + 59 * SecondsPerMinute

(***************************************************************************)
(* Device responses.                                                       *)
(***************************************************************************)
Time0915 == <<"2","0","2","4","0","1","1","5","T","0","9","1","5","3","0">>
Time1015 == <<"2","0","2","4","0","1","1","5","T","1","0","1","5","3","0">>
Time1115 == <<"2","0","2","4","0","1","1","5","T","1","1","1","5","3","0">>
TimeShort == <<"2","0","2","4","0","1","1">>
\* 09:15:30 of 2024-01-15 written without a separator, with a blank for
\* the separator, with a zone suffix (as the devices send it), and as
\* delimited ISO 8601 text.
TimeNoSeparator == <<"2","0","2","4","0","1","1","5","0","9","1","5","3","0">>
TimeBlank == <<"2","0","2","4","0","1","1","5"," ","0","9","1","5","3","0">>
TimeZoned == <<"2","0","2","4","0","1","1","5","T","0","9","1","5","3","0",
               "+","0","2","0","0">>
TimeDashed == <<"2","0","2","4","-","0","1","-","1","5","T","0","9",":","1",
                "5",":","3","0">>

\* Plate elements as xml2js gives them: a child element that the device
\* left out is a key the object does not have.
Plate1 == [captureTime |-> Time0915, plateNumber |-> "1234567",
           picName |-> "pic1", country |-> "ISR", direction |-> "forward"]
Plate2 == [captureTime |-> Time1015, plateNumber |-> "7654321",
           picName |-> "pic2", country |-> "ISR", direction |-> "reverse"]
Plate3 == [captureTime |-> Time1115, plateNumber |-> "1234567",
           picName |-> "pic3", country |-> "ISR", direction |-> "forward"]
\* pic2 with a capture time that is too short
Plate2Short == [Plate2 EXCEPT !.captureTime = TimeShort]
\* pic2 without its direction element
Plate2NoDirection == [captureTime |-> Time1015, plateNumber |-> "7654321",
                      picName |-> "pic2", country |-> "ISR"]
\* pic1 again, with other contents
Plate1Again == [captureTime |-> Time1115, plateNumber |-> "7654321",
                picName |-> "pic1", country |-> "ISR", direction |-> "reverse"]

\* pic4: one event with the capture time written as timeStr.
PlateAt(timeStr) ==
    [captureTime |-> timeStr, plateNumber |-> "1234567",
     picName |-> "pic4", country |-> "ISR", direction |-> "forward"]

\* Parsed documents: result.Plates.Plate is the list of Plate elements.
NoBody == [root |-> "none"]
BodyNoPlates == [root |-> "ResponseStatus"]
BodyOne == [root |-> "Plates", Plate |-> <<Plate1>>]
BodyGood == [root |-> "Plates", Plate |-> <<Plate1, Plate2, Plate3>>]
BodyShortTime == [root |-> "Plates", Plate |-> <<Plate1, Plate2Short, Plate3>>]
BodyMissingField ==
    [root |-> "Plates", Plate |-> <<Plate1, Plate2NoDirection, Plate3>>]
BodyMissingFieldRest ==
    [root |-> "Plates", Plate |-> <<Plate2NoDirection, Plate3>>]
BodyRepeat == [root |-> "Plates", Plate |-> <<Plate1, Plate1Again>>]
BodyAt(timeStr) == [root |-> "Plates", Plate |-> <<PlateAt(timeStr)>>]

\* What client.fetch gives, by the name the state keeps of it: a response
\* (res.ok, or a status that is not 2xx) with its parsed body, or an
\* exception (timeout, connection refused).
Response(res) ==
    CASE res = "noPlates"     -> [kind |-> "ok", body |-> BodyNoPlates]
      [] res = "one"          -> [kind |-> "ok", body |-> BodyOne]
      [] res = "good"         -> [kind |-> "ok", body |-> BodyGood]
      [] res = "shortTime"    -> [kind |-> "ok", body |-> BodyShortTime]
      [] res = "missingField" -> [kind |-> "ok", body |-> BodyMissingField]
      [] res = "missingFieldRest" -> [kind |-> "ok", body |-> BodyMissingFieldRest]
      [] res = "repeat"       -> [kind |-> "ok", body |-> BodyRepeat]
      [] res = "noSeparator"  -> [kind |-> "ok", body |-> BodyAt(TimeNoSeparator)]
      [] res = "blank"        -> [kind |-> "ok", body |-> BodyAt(TimeBlank)]
      [] res = "zoned"        -> [kind |-> "ok", body |-> BodyAt(TimeZoned)]
      [] res = "dashed"       -> [kind |-> "ok", body |-> BodyAt(TimeDashed)]
      [] res = "http500"      -> [kind |-> "http500", body |-> BodyGood]
      [] OTHER                -> [kind |-> "threw", body |-> NoBody]

\* The outcomes of the device call of Cameras[i] when cycles do not overlap:
\* every outcome for the first camera, three of them for the second.
DeviceOutcomes(i) ==
    IF i = 1
    THEN {"noPlates", "one", "good", "shortTime", "missingField", "repeat",
          "http500", "threw"}
    ELSE {"good", "repeat", "threw"}

\* The outcomes of the device call with one event each, its capture time
\* written in several ways.
DecodeOutcomes(i) ==
    IF i = 1 THEN {"one", "noSeparator", "blank", "zoned", "dashed"} ELSE {"one"}

\* The outcomes of the device call that end a cycle in each of its ways: no
\* events, events, a status that is not 2xx, an exception.
TermOutcomes(i) ==
    IF i = 1 THEN {"noPlates", "one", "http500", "threw"} ELSE {"one", "threw"}

\* The outcomes of the device call that add rows to a table cycle after
\* cycle: one event, or three.
AppendOutcomes(i) == IF i = 1 THEN {"one", "good"} ELSE {"one"}

\* The outcomes of the device call when invocations may overlap.
OverlapOutcomes(i) == IF i = 1 THEN {"one", "threw"} ELSE {"one"}

\* The Plate elements of a parsed document.
PlatesOf(result) ==
    IF result.root = "Plates" /\ "Plate" \in DOMAIN result THEN result.Plate ELSE <<>>

\* A device that keeps its events: those that the device of Cameras[i]
\* holds, in capture order, and its answer to a request for the events
\* after picTime.
Held(i) == IF i = 1 THEN <<Plate1, Plate2NoDirection, Plate3>> ELSE <<Plate1>>

RECURSIVE CapturedAfter(_, _)
CapturedAfter(plates, picTime) ==
    IF plates = <<>> THEN <<>>
    ELSE IF DecodeCaptureTime(Head(plates).captureTime)
                > FieldsWall(picTime) - JerusalemOffset
         THEN <<Head(plates)>> \o CapturedAfter(Tail(plates), picTime)
         ELSE CapturedAfter(Tail(plates), picTime)

HeldOutcome(i, picTime) ==
    CHOOSE res \in {"noPlates", "one", "missingField", "missingFieldRest"} :
        PlatesOf(Response(res).body) = CapturedAfter(Held(i), picTime)

(***************************************************************************)
(* State.                                                                  *)
(***************************************************************************)
VARIABLES
    tz,          \* UTC offset of the zone the process runs in
    now,         \* the clock (new Date())
    mainPc,      \* where main is: "connected", "initialSync", "scheduled"
    started,     \* invocations of syncAllCameras so far
    table,       \* tableName -> the rows of the table, in insertion order
    storeFaults, \* store statements that have failed
    runs,        \* invocation -> its position and local variables
    cycles       \* tableName -> summaries of the last finished cycles

vars == <<tz, now, mainPc, started, table, storeFaults, runs, cycles>>

NoPicTime == [year |-> 0, month |-> 0, day |-> 0,
              hour |-> 0, minute |-> 0, second |-> 0]
NoOutcome == "none"

\* A loop that takes the cameras in the reverse of their order.
CycleStartReversed(i) ==
    [pc |-> "getLastSyncTime",
     cam |-> IF i = 0 THEN 0 ELSE Len(Cameras) + 1 - i,
     lastSync |-> 0, picTime |-> NoPicTime,
     res |-> NoOutcome, vehicles |-> <<>>, idx |-> 0, inserted |-> 0,
     clock |-> 0, before |-> <<>>, queryOk |-> TRUE, issued |-> 0,
     storeErr |-> FALSE]

\* The locals of one invocation of syncAllCameras at the start of the cycle
\* of Cameras[i]: syncVehicles awaits getLastSyncTime.
\*   clock, before, queryOk, issued, storeErr record what the cycle did: the
\*   clock and the rows that the watermark query saw, whether it succeeded,
\*   the statements issued by insertVehiclesToSQL, and whether one failed.
CycleStart(i) ==
    [pc |-> "getLastSyncTime", cam |-> i, lastSync |-> 0, picTime |-> NoPicTime,
     res |-> NoOutcome, vehicles |-> <<>>, idx |-> 0, inserted |-> 0,
     clock |-> 0, before |-> <<>>, queryOk |-> TRUE, issued |-> 0,
     storeErr |-> FALSE]

IdleRun == [CycleStart(0) EXCEPT !.pc = "idle"]
DoneRun == [CycleStart(0) EXCEPT !.pc = "done"]

Active(r) == runs[r].pc \notin {"idle", "done"}

\* A program with one table for every camera.
TableOfFirst(rn) == Cameras[1].tableName

\* cameraConfig.tableName, lines 184 and 191.
TableOf(rn) == Cameras[rn.cam].tableName

Init ==
    /\ tz \in ProcessOffsets
    /\ now = StartInstant
    /\ mainPc = "connected"
    /\ started = 0
    /\ table = [t \in TableNames |-> <<>>]
    /\ storeFaults = 0
    /\ runs = [r \in Runs |-> IdleRun]
    /\ cycles = [t \in TableNames |-> <<>>]

(***************************************************************************)
(* The store: mssql with options.useUTC = false writes a Date as the wall  *)
(* clock of the process's zone and reads it back the same way.             *)
(***************************************************************************)
StoreDate(instant) == instant + tz
LoadDate(wall) == wall - tz

MaxOf(S) == CHOOSE x \in S : \A y \in S : y <= x

CaptureTimes(rows) == {rows[i].CaptureTime : i \in 1..Len(rows)}

PicNames(rows) == {rows[i].PicName : i \in 1..Len(rows)}

\* A watermark that is never read from the table.
LastSyncTimeToday(rows, ok) == StartOfLocalDay(now, tz)

\* A watermark that is read from the newest row.
LastSyncTimeOfLastRow(rows, ok) ==
    IF ok /\ rows # <<>>
    THEN LoadDate(rows[Len(rows)].CaptureTime)
    ELSE StartOfLocalDay(now, tz)

\* getLastSyncTime, lines 37-56: MAX(CaptureTime), or midnight of today when
\* the table is empty (LastTime is NULL) or the query fails.
LastSyncTime(rows, ok) ==
    IF ok /\ rows # <<>>
    THEN LoadDate(MaxOf(CaptureTimes(rows)))
    ELSE StartOfLocalDay(now, tz)

\* An existence check that looks at the newest row only.
RecordExistsInLastRow(rows, picName) ==
    rows # <<>> /\ rows[Len(rows)].PicName = picName

\* An existence check that finds nothing.
RecordExistsNever(rows, picName) == FALSE

\* SELECT 1 FROM table WHERE PicName = @picName, lines 144-148.
RecordExists(rows, picName) == picName \in PicNames(rows)

\* The row of the INSERT, lines 150-162.
RowOf(vehicle) ==
    [CaptureTime |-> StoreDate(vehicle.captureTime),
     PlateNumber |-> vehicle.plateNumber, PicName |-> vehicle.picName,
     Country |-> vehicle.country, Direction |-> vehicle.direction,
     InsertTime |-> StoreDate(now)]

\* A driver that sends whatever it is given.
AnyParameters(vehicle) == TRUE

\* The driver validates a DateTime2 parameter: an invalid Date is rejected
\* before the statement is sent, and the request fails.
ValidParameters(vehicle) == vehicle.captureTime # InvalidDate

(***************************************************************************)
(* Parsing, fetchVehiclesFromCamera lines 101-123.                         *)
(***************************************************************************)
RequiredFields == {"captureTime", "plateNumber", "picName", "country", "direction"}

\* plate.x[0] of an element x that is absent throws a TypeError.
Complete(plate) == RequiredFields \subseteq DOMAIN plate

VehicleOf(plate) ==
    [captureTime |-> DecodeCaptureTime(plate.captureTime),
     plateNumber |-> plate.plateNumber, picName |-> plate.picName,
     country |-> plate.country, direction |-> plate.direction]

\* A loop that puts each vehicle in front of those it has.
RECURSIVE ParseLoopReversed(_, _)
ParseLoopReversed(plates, acc) ==
    IF plates = <<>> THEN acc
    ELSE IF ~Complete(Head(plates)) THEN acc
    ELSE ParseLoopReversed(Tail(plates), <<VehicleOf(Head(plates))>> \o acc)

\* The for loop of lines 106-122: it pushes a vehicle per element and is left
\* by the exception of the first incomplete element; the catch of line 126
\* keeps what was pushed.
RECURSIVE ParseLoop(_, _)
ParseLoop(plates, acc) ==
    IF plates = <<>> THEN acc
    ELSE IF ~Complete(Head(plates)) THEN acc
    ELSE ParseLoop(Tail(plates), Append(acc, VehicleOf(Head(plates))))

\* A parser that reads the body whatever the status of the response.
ParseResponseAnyStatus(res) ==
    LET result == Response(res).body IN
    IF result.root = "Plates" /\ "Plate" \in DOMAIN result
    THEN ParseLoop(result.Plate, <<>>)
    ELSE <<>>

\* A parser that takes result.Plates.Plate for one element.
ParseResponseFirstOnly(res) ==
    LET result == Response(res).body IN
    IF Response(res).kind # "ok" THEN <<>>
    ELSE IF result.root = "Plates" /\ "Plate" \in DOMAIN result
    THEN ParseLoop(<<Head(result.Plate)>>, <<>>)
    ELSE <<>>

\* Lines 92-123: a response that is not ok throws before its body is read.
ParseResponse(res) ==
    LET result == Response(res).body IN
    IF Response(res).kind # "ok" THEN <<>>
    ELSE IF result.root = "Plates" /\ "Plate" \in DOMAIN result
    THEN ParseLoop(result.Plate, <<>>)
    ELSE <<>>

(***************************************************************************)
(* Operations.                                                             *)
(***************************************************************************)
\* What a finished cycle did, for the table it wrote to.
Summary(r, rn, rows) ==
    [run |-> r, cam |-> rn.cam, clock |-> rn.clock, queryOk |-> rn.queryOk,
     before |-> rn.before, pc |-> "over",
     lastSync |-> rn.lastSync, picTime |-> rn.picTime, res |-> rn.res,
     vehicles |-> rn.vehicles, inserted |-> rn.inserted, issued |-> rn.issued,
     storeErr |-> rn.storeErr, after |-> rows]

KeepLast(h) == IF Len(h) > HistoryLen THEN Tail(h) ELSE h

\* A loop over the cameras that a failed device call ends.
NextCameraStopOnFailure(rn) ==
    IF rn.cam < Len(Cameras) /\ Response(rn.res).kind = "ok"
    THEN CycleStart(rn.cam + 1)
    ELSE DoneRun

\* syncAllCameras, lines 204-208: the next camera's cycle starts when
\* syncVehicles has returned, whatever happened in it; after the last one
\* the invocation is over.
NextCamera(rn) ==
    IF rn.cam < Len(Cameras) THEN CycleStart(rn.cam + 1) ELSE DoneRun

\* A loop that does not end after its last event.
AfterEventStuck(rn) ==
    IF rn.idx < Len(rn.vehicles)
    THEN [rn EXCEPT !.idx = @ + 1, !.pc = "check"]
    ELSE [rn EXCEPT !.pc = "stuck"]

\* A loop that counts every event it has dealt with.
AfterEventCountingAll(rn) ==
    IF rn.idx < Len(rn.vehicles)
    THEN [rn EXCEPT !.idx = @ + 1, !.pc = "check", !.inserted = rn.idx]
    ELSE [rn EXCEPT !.pc = "cycleEnd", !.inserted = rn.idx]

\* A loop that a store error ends.
AfterEventAbortOnError(rn) ==
    IF rn.idx < Len(rn.vehicles) /\ ~rn.storeErr
    THEN [rn EXCEPT !.idx = @ + 1, !.pc = "check"]
    ELSE [rn EXCEPT !.pc = "cycleEnd"]

\* The for loop of insertVehiclesToSQL, lines 141-170: on to the next
\* vehicle, or out of the loop.
AfterEvent(rn) ==
    IF rn.idx < Len(rn.vehicles)
    THEN [rn EXCEPT !.idx = @ + 1, !.pc = "check"]
    ELSE [rn EXCEPT !.pc = "cycleEnd"]

\* The step of invocation r ends with locals rn and with rows in its table.
Commit(r, rn, rows) ==
    \E locals \in {rn} :
        /\ table' = [table EXCEPT ![TableOf(locals)] = rows]
        /\ IF locals.pc = "cycleEnd"
           THEN /\ runs' = [runs EXCEPT ![r] = NextCamera(locals)]
                /\ cycles' = [cycles EXCEPT ![TableOf(locals)] =
                                  KeepLast(Append(@, Summary(r, locals, rows)))]
           ELSE /\ runs' = [runs EXCEPT ![r] = locals]
                /\ UNCHANGED cycles

\* A store statement fails (ok = FALSE) at most MaxStoreFaults times.
StoreAnswers(ok) ==
    /\ ok \/ storeFaults < MaxStoreFaults
    /\ storeFaults' = IF ok THEN storeFaults ELSE storeFaults + 1

\* main, line 253: the initial sync of all cameras.
InitialSync ==
    /\ mainPc = "connected"
    /\ mainPc' = "initialSync"
    /\ started' = 1
    /\ runs' = [runs EXCEPT ![1] = CycleStart(1)]
    /\ UNCHANGED <<tz, now, table, storeFaults, cycles>>

\* main, lines 256-262: the initial sync has returned; the job is scheduled.
ScheduleJob ==
    /\ mainPc = "initialSync"
    /\ runs[1].pc = "done"
    /\ mainPc' = "scheduled"
    /\ UNCHANGED <<tz, now, started, table, storeFaults, runs, cycles>>

\* The scheduler starts the job's callback, lines 260-262, at each interval;
\* it does not look at the invocations still running.
StartJob ==
    /\ mainPc = "scheduled"
    /\ started < MaxRuns
    /\ now' = now + IntervalMinutes * SecondsPerMinute
    /\ started' = started + 1
    /\ runs' = [runs EXCEPT ![started + 1] = CycleStart(1)]
    /\ UNCHANGED <<tz, mainPc, table, storeFaults, cycles>>

\* A scheduler that skips the tick while an invocation is running.
TickUnlessRunning ==
    /\ \A r \in Runs : runs[r].pc \in {"idle", "done"}
    /\ StartJob

Tick == StartJob

\* A tick that finds no invocation running.
TickIdle ==
    /\ \A r \in Runs : ~Active(r)
    /\ started < MaxSeqRuns
    /\ StartJob

\* A tick that finds no invocation running, as long as the scheduler ticks.
TickQuiet ==
    /\ \A r \in Runs : ~Active(r)
    /\ StartJob

\* syncVehicles, line 184: the watermark query answers.
GetLastSyncTime(r, ok) ==
    LET rn == runs[r] IN
    /\ rn.pc = "getLastSyncTime"
    /\ StoreAnswers(ok)
    /\ runs' = [runs EXCEPT ![r] =
                   [rn EXCEPT !.pc = "fetch", !.queryOk = ok, !.clock = now,
                              !.before = table[TableOf(rn)],
                              !.lastSync = LastSyncTime(table[TableOf(rn)], ok)]]
    /\ UNCHANGED <<tz, now, mainPc, started, table, cycles>>

\* syncVehicles, lines 188-195: the device call ends with res; the body is
\* parsed; with no vehicles the cycle is over.
FetchVehicles(r, res) ==
    LET rn == runs[r] IN
    /\ rn.pc = "fetch"
    /\ \E picTime \in {FormatPicTime(rn.lastSync)} :
       \E vehicles \in {ParseResponse(res)} :
           Commit(r, [rn EXCEPT !.picTime = picTime,
                                !.res = res, !.vehicles = vehicles,
                                !.idx = IF vehicles = <<>> THEN 0 ELSE 1,
                                !.pc = IF vehicles = <<>> THEN "cycleEnd"
                                                          ELSE "check"],
                  table[TableOf(rn)])
    /\ UNCHANGED <<tz, now, mainPc, started, storeFaults>>

\* insertVehiclesToSQL, lines 143-148 and 167-169: the existence check of
\* the current vehicle answers.
CheckExists(r, ok) ==
    LET rn == runs[r]
        rows == table[TableOf(rn)]
        asked == [rn EXCEPT !.issued = @ + 1]
    IN
    /\ rn.pc = "check"
    /\ StoreAnswers(ok)
    /\ Commit(r, IF ~ok THEN AfterEvent([asked EXCEPT !.storeErr = TRUE])
                 ELSE IF RecordExists(rows, rn.vehicles[rn.idx].picName)
                      THEN AfterEvent(asked)
                      ELSE [asked EXCEPT !.pc = "insert"],
              rows)
    /\ UNCHANGED <<tz, now, mainPc, started>>

\* insertVehiclesToSQL, lines 150-169: the INSERT of the current vehicle
\* answers; inserted counts the ones that succeeded.
InsertRow(r, ok) ==
    LET rn == runs[r]
        rows == table[TableOf(rn)]
        vehicle == rn.vehicles[rn.idx]
        asked == [rn EXCEPT !.issued = @ + 1]
    IN
    /\ rn.pc = "insert"
    /\ IF ~ValidParameters(vehicle)
       THEN /\ ok
            /\ UNCHANGED storeFaults
            /\ Commit(r, AfterEvent(asked), rows)
       ELSE /\ StoreAnswers(ok)
            /\ IF ok
               THEN Commit(r, AfterEvent([asked EXCEPT !.inserted = @ + 1]),
                           Append(rows, RowOf(vehicle)))
               ELSE Commit(r, AfterEvent([asked EXCEPT !.storeErr = TRUE]), rows)
    /\ UNCHANGED <<tz, now, mainPc, started>>

\* A step of the store for invocation r.
StoreStep(r) ==
    \/ \E ok \in BOOLEAN : GetLastSyncTime(r, ok)
    \/ \E ok \in BOOLEAN : CheckExists(r, ok)
    \/ \E ok \in BOOLEAN : InsertRow(r, ok)

\* The program: the scheduler starts an invocation at every tick.
Next ==
    \/ InitialSync
    \/ ScheduleJob
    \/ Tick
    \/ \E r \in Runs : StoreStep(r)
    \/ \E r \in Runs : \E res \in OverlapOutcomes(runs[r].cam) : FetchVehicles(r, res)

Spec == Init /\ [][Next]_vars

\* The program when every invocation ends before the next tick.
NextSeq ==
    \/ InitialSync
    \/ ScheduleJob
    \/ TickIdle
    \/ \E r \in Runs : StoreStep(r)
    \/ \E r \in Runs : \E res \in DeviceOutcomes(runs[r].cam) : FetchVehicles(r, res)

SpecSeq == Init /\ [][NextSeq]_vars

\* The same, with devices that write the capture time in several ways.
NextDecode ==
    \/ InitialSync
    \/ ScheduleJob
    \/ TickIdle
    \/ \E r \in Runs : StoreStep(r)
    \/ \E r \in Runs : \E res \in DecodeOutcomes(runs[r].cam) : FetchVehicles(r, res)

SpecDecode == Init /\ [][NextDecode]_vars

\* The program over several ticks that never overlap, with devices that
\* have something to add.
NextAppend ==
    \/ InitialSync
    \/ ScheduleJob
    \/ TickQuiet
    \/ \E r \in Runs : StoreStep(r)
    \/ \E r \in Runs : \E res \in AppendOutcomes(runs[r].cam) : FetchVehicles(r, res)

SpecAppend == Init /\ [][NextAppend]_vars

\* The program when every awaited call returns: the store and the device
\* answer, with a result or an error.
NextTerm ==
    \/ InitialSync
    \/ ScheduleJob
    \/ TickIdle
    \/ \E r \in Runs : StoreStep(r)
    \/ \E r \in Runs : \E res \in TermOutcomes(runs[r].cam) : FetchVehicles(r, res)

SpecTerm ==
    /\ Init
    /\ [][NextTerm]_vars
    /\ WF_vars(\E r \in Runs : StoreStep(r))
    /\ WF_vars(\E r \in Runs : \E res \in TermOutcomes(runs[r].cam) :
                   FetchVehicles(r, res))

\* A later tick that finds no invocation running. The clock is left where
\* it is: the instants of the ticks that follow lie in the same day.
TickAgain ==
    /\ mainPc = "scheduled"
    /\ \A r \in Runs : ~Active(r)
    /\ runs' = [runs EXCEPT ![1] = CycleStart(1)]
    /\ UNCHANGED <<tz, now, mainPc, started, table, storeFaults, cycles>>

\* The device call of invocation r is answered by a device that keeps its
\* events.
FetchHeld(r) ==
    /\ runs[r].pc = "fetch"
    /\ \E picTime \in {FormatPicTime(runs[r].lastSync)} :
       \E res \in {HeldOutcome(runs[r].cam, picTime)} :
           FetchVehicles(r, res)

\* The program for ever: ticks without end, never overlapping, a store that
\* answers every statement, and devices that keep their events and may be
\* unreachable.
NextKeeping ==
    \/ InitialSync
    \/ ScheduleJob
    \/ TickAgain
    \/ \E r \in Runs : GetLastSyncTime(r, TRUE)
    \/ \E r \in Runs : CheckExists(r, TRUE)
    \/ \E r \in Runs : InsertRow(r, TRUE)
    \/ \E r \in Runs : FetchHeld(r)
    \/ \E r \in Runs : FetchVehicles(r, "threw")

\* The scheduler ticks for ever and every awaited call returns; a device
\* that is asked again and again answers infinitely often.
SpecKeeping ==
    /\ Init
    /\ [][NextKeeping]_vars
    /\ WF_vars(NextKeeping)
    /\ SF_vars(\E r \in Runs : FetchHeld(r))

\* main, lines 267-272: the handler of SIGINT exists once the initial sync
\* has returned. It cancels the job and awaits sqlPool.close().
Sigint ==
    /\ mainPc = "scheduled"
    /\ mainPc' = "closing"
    /\ UNCHANGED <<tz, now, started, table, storeFaults, runs, cycles>>

\* SIGINT before line 267 is reached: no handler is registered, and the
\* signal ends the process.
SigintDefault ==
    /\ mainPc \in {"connected", "initialSync"}
    /\ mainPc' = "killed"
    /\ UNCHANGED <<tz, now, started, table, storeFaults, runs, cycles>>

\* main, line 271: sqlPool.close() has returned; process.exit(0).
ProcessExit ==
    /\ mainPc = "closing"
    /\ mainPc' = "exited"
    /\ UNCHANGED <<tz, now, started, table, storeFaults, runs, cycles>>

\* The process is gone: nothing of it runs any more.
Exited == mainPc \in {"exited", "killed"}

\* The program with the shutdown signal.
NextSignal ==
    \/ InitialSync
    \/ ScheduleJob
    \/ Tick
    \/ \E r \in Runs : ~Exited /\ StoreStep(r)
    \/ \E r \in Runs : \E res \in OverlapOutcomes(runs[r].cam) :
           ~Exited /\ FetchVehicles(r, res)
    \/ Sigint
    \/ SigintDefault
    \/ ProcessExit

SpecSignal == Init /\ [][NextSignal]_vars

(***************************************************************************)
(* Properties.                                                             *)
(***************************************************************************)
\* The summaries of the finished cycles of table t.
Summaries(t) == {cycles[t][k] : k \in 1..Len(cycles[t])}

AllSummaries == UNION {Summaries(t) : t \in TableNames}

\* The rows that a finished cycle left in its table beyond those it found.
Gained(S) == SubSeq(S.after, Len(S.before) + 1, Len(S.after))

SeqPicNames(rows) == [k \in 1..Len(rows) |-> rows[k].PicName]

DeviceOk(S) == Response(S.res).kind = "ok"

NoDuplicates(rows) ==
    \A i, j \in 1..Len(rows) : rows[i].PicName = rows[j].PicName => i = j

\* C1: when the cycles on a table never overlap, no two rows of a table
\* share a PicName, whatever the device answers (a name repeated inside one
\* batch, events sent again).
C1_UniquePicName == \A t \in TableNames : NoDuplicates(table[t])

\* A table took a batch that repeats pic1, twice over: one row was inserted
\* by the first cycle and none by the second.
C1_Witness ==
    \E t \in TableNames :
        /\ Len(cycles[t]) = 2
        /\ cycles[t][1].res = "repeat" /\ cycles[t][1].inserted = 1
        /\ cycles[t][2].res = "repeat" /\ cycles[t][2].inserted = 0
        /\ cycles[t][2].issued = 2

\* Two consecutive cycles of a table got the same response from the device.
SameResponseTwice(P, S) == DeviceOk(P) /\ S.res = P.res

CyclesOf(r, i) == {S \in Summaries(Cameras[i].tableName) : S.run = r}

\* A finished cycle went through every stage: the watermark gave the picTime
\* of the request, the response was parsed, and the count is the number of
\* rows the table gained.
CompleteCycle(S) ==
    /\ S.picTime = FormatPicTime(S.lastSync)
    /\ S.vehicles = ParseResponse(S.res)
    /\ S.inserted = Len(S.after) - Len(S.before)

\* C3: once the device call of an earlier camera has failed in an
\* invocation, every later camera still gets its cycle in that invocation:
\* the invocation is at or before that cycle, or has finished it, complete,
\* with its own count.
C3_SourceIsolation ==
    \A r \in Runs : \A i \in 1..Len(Cameras) : \A j \in (i + 1)..Len(Cameras) :
        (\E F \in CyclesOf(r, i) : ~DeviceOk(F))
            => \/ Active(r) /\ runs[r].cam <= j
               \/ \E S \in CyclesOf(r, j) : CompleteCycle(S)

\* An invocation is over; the device of its first camera threw, and the
\* cycle of its second camera inserted the three events it got.
C3_Witness ==
    \E r \in Runs :
        /\ runs[r].pc = "done"
        /\ \E F \in CyclesOf(r, 1) : F.res = "threw"
        /\ \E S \in CyclesOf(r, 2) : S.res = "good" /\ S.inserted = 3

\* A cycle got three complete events with distinct picture names, none of
\* them in the table; the capture time of the second does not decode and
\* those of the first and third do.
PartialBatchCase(S) ==
    LET result == Response(S.res).body IN
    /\ DeviceOk(S)
    /\ result.root = "Plates" /\ "Plate" \in DOMAIN result
    /\ Len(result.Plate) = 3
    /\ \A k \in 1..3 : Complete(result.Plate[k])
    /\ Cardinality({result.Plate[k].picName : k \in 1..3}) = 3
    /\ \A k \in 1..3 : result.Plate[k].picName \notin PicNames(S.before)
    /\ DecodeCaptureTime(result.Plate[2].captureTime) = InvalidDate
    /\ DecodeCaptureTime(result.Plate[1].captureTime) # InvalidDate
    /\ DecodeCaptureTime(result.Plate[3].captureTime) # InvalidDate

FirstAndThirdPersisted(S) ==
    LET result == Response(S.res).body IN
    SeqPicNames(Gained(S)) = <<result.Plate[1].picName, result.Plate[3].picName>>

RECURSIVE CompletePicNames(_)
CompletePicNames(plates) ==
    IF plates = <<>> THEN <<>>
    ELSE IF Complete(Head(plates))
         THEN <<Head(plates).picName>> \o CompletePicNames(Tail(plates))
         ELSE CompletePicNames(Tail(plates))

\* C5: of a response with an element that lacks a required field, every
\* other element, before it and after it, is parsed and offered to the
\* store.
C5_SkipOnlyIncomplete ==
    \A S \in AllSummaries :
        LET result == Response(S.res).body IN
        DeviceOk(S) /\ result.root = "Plates" /\ "Plate" \in DOMAIN result
            => [k \in 1..Len(S.vehicles) |-> S.vehicles[k].picName]
                   = CompletePicNames(result.Plate)

\* Table t was offered the event named picName: a cycle of t whose device
\* call succeeded resolved a watermark before the event's capture time, and
\* the device's answer held the event, complete and with a capture time that
\* decodes.
Offered(t, picName) ==
    \E S \in Summaries(t) :
        /\ DeviceOk(S)
        /\ \E k \in 1..Len(PlatesOf(Response(S.res).body)) :
               LET plate == PlatesOf(Response(S.res).body)[k] IN
               /\ Complete(plate) /\ plate.picName = picName
               /\ DecodeCaptureTime(plate.captureTime) # InvalidDate
               /\ DecodeCaptureTime(plate.captureTime) > S.lastSync

HeldPicNames == {"pic1", "pic2", "pic3"}

\* Every event that its table was offered is in the table.
OfferedArePersisted ==
    \A t \in TableNames : \A picName \in HeldPicNames :
        Offered(t, picName) => picName \in PicNames(table[t])

\* The cycle after one whose device call failed resolved the same watermark.
WatermarkKept ==
    \A t \in TableNames : \A k \in 1..(Len(cycles[t]) - 1) :
        ~DeviceOk(cycles[t][k]) => cycles[t][k + 1].lastSync = cycles[t][k].lastSync

\* C6: the cycle after one whose device call failed resolves the same
\* watermark, and once the device answers, every event that it holds after
\* the watermark is eventually persisted: from some cycle on, nothing that
\* was offered is missing from its table.
C6_MissedCycleRecovery == []WatermarkKept /\ <>[]OfferedArePersisted

\* The cycles whose watermark is resolved: the finished ones and those that
\* invocations are in, after getLastSyncTime.
Resolved ==
    AllSummaries
        \cup {runs[r] : r \in {q \in Runs : runs[q].pc \in {"fetch", "check", "insert"}}}

\* The instant that the picTime of a request stands for.
PicTimeInstant(picTime) == FieldsWall(picTime) - JerusalemOffset

\* The greatest CaptureTime of rows, as an instant.
MaxCaptureInstant(rows) ==
    CHOOSE m \in {rows[k].CaptureTime - tz : k \in 1..Len(rows)} :
        \A k \in 1..Len(rows) : rows[k].CaptureTime - tz <= m

\* C7: the lower bound of a cycle is the greatest CaptureTime of the rows
\* that its own watermark query read; with no rows, or when the query
\* fails, the cycle goes on with midnight of the current day instead.
C7_DerivedWatermark ==
    \A x \in Resolved :
        LET bound == IF x.queryOk /\ x.before # <<>>
                     THEN MaxCaptureInstant(x.before)
                     ELSE StartOfLocalDay(x.clock, tz)
        IN  /\ x.lastSync = bound
            /\ x.pc # "fetch" => PicTimeInstant(x.picTime) = bound

\* A cycle is over whose watermark query read several rows and whose
\* request went out with their greatest capture time.
C7_Witness ==
    \E S \in AllSummaries :
        /\ S.queryOk /\ Len(S.before) >= 2
        /\ Cardinality(CaptureTimes(S.before)) >= 2
        /\ S.res # NoOutcome
        /\ S.lastSync # StartOfLocalDay(S.clock, tz)

\* C8: with an empty table the watermark is 00:00:00 of the current day in
\* Asia/Jerusalem, whatever the zone of the process.
C8_DefaultIsJerusalemMidnight ==
    \A x \in Resolved :
        x.queryOk /\ x.before = <<>>
            => x.lastSync = StartOfLocalDay(x.clock, JerusalemOffset)

\* C9: a cycle whose device call threw or answered with a status that is
\* not 2xx parses nothing, issues no existence check and no insert, counts
\* nothing and leaves its table as it found it.
C9_DeviceFailureNoEffect ==
    /\ \A S \in AllSummaries :
           ~DeviceOk(S)
               => /\ S.vehicles = <<>> /\ S.issued = 0 /\ S.inserted = 0
                  /\ S.after = S.before
    /\ \A r \in Runs :
           runs[r].pc \in {"check", "insert"} => Response(runs[r].res).kind = "ok"

\* A cycle is over whose device answered 500 with a body of three events,
\* on a table that had rows; another one's device call threw.
C9_Witness ==
    /\ \E S \in AllSummaries : S.res = "http500" /\ S.before # <<>>
    /\ \E S \in AllSummaries : S.res = "threw"

\* C10: the scheduler starts an invocation at a tick whatever the earlier
\* ones are doing, and an invocation whose existence check found the picture
\* name absent inserts its row whatever the table holds by then; overlapping
\* cycles can so leave two rows with one picture name.
C10_OverlapCanDuplicate ==
    /\ mainPc = "scheduled" /\ started < MaxRuns => ENABLED Tick
    /\ \A r \in Runs :
           runs[r].pc = "insert" /\ ValidParameters(runs[r].vehicles[runs[r].idx])
               => ENABLED (/\ InsertRow(r, TRUE)
                           /\ table'[TableOf(runs[r])]
                                  = Append(table[TableOf(runs[r])],
                                           RowOf(runs[r].vehicles[runs[r].idx])))

\* Two invocations were in the cycle of one camera at once, both found pic1
\* absent, and the table has two rows with that picture name.
C10_Witness ==
    \E t \in TableNames :
        /\ ~NoDuplicates(table[t])
        /\ \E P, S \in Summaries(t) :
               /\ P.run # S.run
               /\ P.inserted = 1 /\ S.inserted = 1
               /\ P.before = <<>> /\ S.before = <<>>

\* C11: a cycle that is in flight when the shutdown signal arrives runs to
\* completion before the process ends: once the process is gone, no
\* invocation is left in the middle of a cycle, and the process has ended
\* through its handler (store closed, exit code 0) if a cycle was in flight.
C11_GracefulShutdown ==
    /\ mainPc = "exited" => \A r \in Runs : ~Active(r)
    /\ mainPc = "killed" => \A r \in Runs : ~Active(r)

\* C12: an invocation is in the cycle of one camera at a time and takes the
\* cameras in their configured order: while it is in the cycle of a camera,
\* its cycles of all earlier cameras are over and none of its cycles of that
\* camera or a later one is.
C12_SequentialSources ==
    \A r \in Runs :
        Active(r)
            => /\ \A i \in 1..(runs[r].cam - 1) : CyclesOf(r, i) # {}
               /\ \A i \in runs[r].cam..Len(Cameras) : CyclesOf(r, i) = {}

\* An invocation is about to insert in the cycle of the second camera, after
\* a cycle of the first camera that inserted.
C12_Witness ==
    \E r \in Runs :
        /\ runs[r].cam = 2 /\ runs[r].pc = "insert"
        /\ \E S \in CyclesOf(r, 1) : S.inserted = 1

\* The Plate elements of the response of a finished cycle.
PlatesIn(S) == PlatesOf(Response(S.res).body)

WellFormed(S) ==
    DeviceOk(S) /\ \A k \in 1..Len(PlatesIn(S)) : Complete(PlatesIn(S)[k])

\* C13: of a well-formed response, the parsed sequence has one event per
\* Plate element, in the order of the elements: none for a response without
\* Plates, one for one element, two for two.
C13_ParseSize ==
    \A S \in AllSummaries :
        WellFormed(S)
            => /\ Len(S.vehicles) = Len(PlatesIn(S))
               /\ \A k \in 1..Len(PlatesIn(S)) :
                      S.vehicles[k].picName = PlatesIn(S)[k].picName

\* Cycles are over whose responses had no Plates, one Plate element and two
\* Plate elements, parsed to no event, one and two.
C13_Witness ==
    \E S0, S1, S2 \in AllSummaries :
        /\ WellFormed(S0) /\ PlatesIn(S0) = <<>> /\ S0.vehicles = <<>>
        /\ WellFormed(S1) /\ Len(PlatesIn(S1)) = 1 /\ Len(S1.vehicles) = 1
        /\ WellFormed(S2) /\ Len(PlatesIn(S2)) = 2 /\ Len(S2.vehicles) = 2

\* 2024-01-15 09:15:30
ExampleFields == [year |-> 2024, month |-> 1, day |-> 15,
                  hour |-> 9, minute |-> 15, second |-> 30]

\* The fields, in Asia/Jerusalem, of the capture time of a vehicle.
ZoneFields(vehicle) == WallFields(vehicle.captureTime + JerusalemOffset)

\* Every element with capture time timeStr, in a finished cycle with a
\* well-formed response, was decoded to the fields f in the fixed zone.
DecodesTo(timeStr, f) ==
    \A S \in AllSummaries : \A k \in 1..Len(PlatesIn(S)) :
        WellFormed(S) /\ PlatesIn(S)[k].captureTime = timeStr
            => /\ S.vehicles[k].captureTime # InvalidDate
               /\ ZoneFields(S.vehicles[k]) = f

\* C14 as stated: "20240115091530" decodes to 2024-01-15 09:15:30 in the
\* fixed zone.
C14_DecodeExample == DecodesTo(TimeNoSeparator, ExampleFields)

\* C14, amended: "20240115T091530" decodes to 2024-01-15 09:15:30 in the
\* fixed zone.
C14_DecodeExampleWithSeparator == DecodesTo(Time0915, ExampleFields)

\* A cycle decoded "20240115T091530" and its row is in the table with that
\* capture time.
C14_Witness ==
    \E S \in AllSummaries :
        /\ S.res = "one" /\ S.inserted = 1
        /\ PlatesIn(S)[1].captureTime = Time0915
        /\ S.after[Len(S.after)].CaptureTime
               = StoreDate(FieldsWall(ExampleFields) - JerusalemOffset)

\* The instant of the text made of the characters of s at the fixed
\* positions 0-3, 4-5, 6-7, 9-10, 11-12 and 13-14.
PositionalInstant(s) ==
    LET At(first, last) == [k \in 1..(last - first + 1) |-> s[first + k]]
    IN  IF \A k \in (1..15) \ {9} : IsDigit(s[k])
        THEN ZonedInstant([year |-> ToNumber(At(0, 3)), month |-> ToNumber(At(4, 5)),
                           day |-> ToNumber(At(6, 7)), hour |-> ToNumber(At(9, 10)),
                           minute |-> ToNumber(At(11, 12)),
                           second |-> ToNumber(At(13, 14))])
        ELSE InvalidDate

\* Two texts of 15 characters or more that differ at most at position 8 and
\* after position 14.
SameAtPositions(s, t) ==
    /\ Len(s) >= 15 /\ Len(t) >= 15
    /\ \A k \in (1..15) \ {9} : s[k] = t[k]

\* C15: a capture time of 15 characters or more is decoded from the
\* characters at the fixed positions alone: the character at position 8 and
\* those after position 14 change nothing, and a text written with
\* delimiters is not split on them.
C15_PositionalDecode ==
    /\ \A S \in AllSummaries : \A k \in 1..Len(PlatesIn(S)) :
           WellFormed(S) /\ Len(PlatesIn(S)[k].captureTime) >= 15
               => S.vehicles[k].captureTime
                      = PositionalInstant(PlatesIn(S)[k].captureTime)
    /\ \A S, T \in AllSummaries :
           /\ WellFormed(S) /\ WellFormed(T)
           /\ PlatesIn(S) # <<>> /\ PlatesIn(T) # <<>>
           /\ SameAtPositions(PlatesIn(S)[1].captureTime, PlatesIn(T)[1].captureTime)
           => S.vehicles[1].captureTime = T.vehicles[1].captureTime
    /\ \A S \in AllSummaries :
           S.res = "dashed" => S.vehicles[1].captureTime = InvalidDate

\* Cycles are over of which one decoded a capture time with a blank at
\* position 8 to 09:15:30 and inserted its row, and one got delimited text.
C15_Witness ==
    /\ \E S \in AllSummaries :
           /\ S.res = "blank" /\ S.inserted = 1
           /\ ZoneFields(S.vehicles[1]) = ExampleFields
    /\ \E S \in AllSummaries :
           S.res = "dashed" /\ S.vehicles[1].captureTime = InvalidDate

\* The vehicles of a finished cycle that could be stored (their capture time
\* is a date) and are not in the table at its end.
Lost(S) ==
    {k \in 1..Len(S.vehicles) :
        /\ S.vehicles[k].captureTime # InvalidDate
        /\ S.vehicles[k].picName \notin PicNames(S.after)}

\* C16: a store error on the existence check or the insert of an event
\* costs that event alone: the cycle ends all the same, every event of the
\* batch has had its existence check, the failed event is not counted, and
\* no more events are missing from the table than store errors occurred.
C16_FailureIsolated ==
    \A S \in AllSummaries :
        DeviceOk(S)
            => /\ S.issued >= Len(S.vehicles)
               /\ S.inserted = Len(Gained(S))
               /\ S.inserted <= Len(S.vehicles) - Cardinality(Lost(S))
               /\ Cardinality(Lost(S)) <= storeFaults

\* A cycle with three new events is over: a statement for the first one
\* failed, and the second and third were inserted and counted.
C16_Witness ==
    \E S \in AllSummaries :
        /\ S.res = "good" /\ S.storeErr /\ S.before = <<>>
        /\ S.inserted = 2
        /\ SeqPicNames(S.after) = <<"pic2", "pic3">>

\* C17: when cycles on a table do not overlap, the count of a cycle is at
\* every moment the number of rows that its table has gained since the cycle
\* began, and the rows it found are still there: events found present and
\* events whose check or insert failed add nothing to it.
C17_CountIsExact ==
    /\ \A S \in AllSummaries :
           /\ S.inserted = Len(S.after) - Len(S.before)
           /\ SubSeq(S.after, 1, Len(S.before)) = S.before
    /\ \A r \in Runs :
           runs[r].pc \in {"fetch", "check", "insert"}
               => /\ runs[r].inserted
                         = Len(table[TableOf(runs[r])]) - Len(runs[r].before)
                  /\ runs[r].inserted <= runs[r].issued

\* A cycle is over that got three events: the first was in the table, a
\* statement for one of the others failed, and one row was inserted and
\* counted.
C17_Witness ==
    \E S \in AllSummaries :
        /\ S.res = "good" /\ S.storeErr
        /\ SeqPicNames(S.before) = <<"pic1">>
        /\ S.inserted = 1 /\ Len(S.after) = 2

\* The positions, in the parsed batch of a finished cycle, of the vehicles
\* that the row may come from.
SourcesOf(S, row) ==
    {k \in 1..Len(S.vehicles) :
        /\ S.vehicles[k].picName = row.PicName
        /\ S.vehicles[k].plateNumber = row.PlateNumber
        /\ StoreDate(S.vehicles[k].captureTime) = row.CaptureTime}

\* The position of the first vehicle of the batch with that picture name.
FirstNamed(S, picName) ==
    CHOOSE k \in 1..Len(S.vehicles) :
        /\ S.vehicles[k].picName = picName
        /\ \A j \in 1..(k - 1) : S.vehicles[j].picName # picName

\* The parser keeps the order of the response, the rows that a cycle
\* inserted follow that order, and a cycle that is at its k-th event has
\* only inserted rows of the events before it.
AppliedInOrder ==
    /\ \A S \in AllSummaries :
           /\ WellFormed(S)
                  => S.vehicles = [k \in 1..Len(PlatesIn(S)) |-> VehicleOf(PlatesIn(S)[k])]
           /\ \A i \in 1..Len(Gained(S)) : SourcesOf(S, Gained(S)[i]) # {}
           /\ \A i, j \in 1..Len(Gained(S)) :
                  i < j => \E a \in SourcesOf(S, Gained(S)[i]) :
                           \E b \in SourcesOf(S, Gained(S)[j]) : a < b
    /\ \A r \in Runs :
           runs[r].pc \in {"check", "insert"}
               => \A i \in (Len(runs[r].before) + 1)..Len(table[TableOf(runs[r])]) :
                      \E k \in 1..(runs[r].idx - 1) :
                          runs[r].vehicles[k].picName
                              = table[TableOf(runs[r])][i].PicName

\* The row that a cycle inserted under a picture name is the one of the
\* first event of its batch with that name.
EarlierIsPersisted(S) ==
    \A i \in 1..Len(Gained(S)) :
        FirstNamed(S, Gained(S)[i].PicName) \in SourcesOf(S, Gained(S)[i])

AtPresentEvent(r) ==
    /\ runs[r].pc = "check"
    /\ runs[r].vehicles[runs[r].idx].picName \in PicNames(table[TableOf(runs[r])])

\* The rows of every table stay as they are: a step can only add rows after
\* them.
RowsKept ==
    \A t \in TableNames :
        /\ Len(table'[t]) >= Len(table[t])
        /\ SubSeq(table'[t], 1, Len(table[t])) = table[t]

\* C19: the existence check of an event whose picture name is in the table
\* is followed by no insert and leaves the table as it is, whatever the
\* other fields of the event; no step of any cycle changes or removes a row.
C19_AppendIfAbsentFrame ==
    [][/\ RowsKept
       /\ \A r \in Runs :
              AtPresentEvent(r) /\ runs'[r] # runs[r]
                  => table' = table /\ runs'[r].pc # "insert"]_vars

\* A cycle got pic1 with other contents than the row it found: it issued
\* two existence checks and no insert, and the row is as it was.
C19_Witness ==
    \E S \in AllSummaries :
        /\ S.res = "repeat" /\ Len(S.before) = 1
        /\ S.before[1].PicName = Plate1Again.picName
        /\ S.before[1].PlateNumber # Plate1Again.plateNumber
        /\ S.issued = 2 /\ S.inserted = 0 /\ S.after = S.before

\* The stages of the cycle that invocation r is in, in their order: nothing
\* is fetched before the watermark is resolved, and the store is only
\* offered what was parsed from a response that was ok.
StagesInOrder(r) ==
    LET rn == runs[r] IN
    /\ rn.pc = "getLastSyncTime"
           => rn.res = NoOutcome /\ rn.vehicles = <<>> /\ rn.issued = 0
    /\ rn.pc = "fetch"
           => rn.res = NoOutcome /\ rn.vehicles = <<>> /\ rn.issued = 0
    /\ rn.pc \in {"check", "insert"}
           => /\ Response(rn.res).kind = "ok"
              /\ rn.picTime = FormatPicTime(rn.lastSync)
              /\ rn.vehicles = ParseResponse(rn.res) /\ rn.vehicles # <<>>
              /\ rn.idx \in 1..Len(rn.vehicles)

\* Invocation r can take its next step.
CanGoOn(r) ==
    \/ ENABLED (\E ok \in BOOLEAN : GetLastSyncTime(r, ok))
    \/ ENABLED (\E res \in TermOutcomes(runs[r].cam) : FetchVehicles(r, res))
    \/ ENABLED CheckExists(r, TRUE)
    \/ ENABLED InsertRow(r, TRUE)

\* What holds of every cycle at every moment: its stages are in order, it is
\* never stuck, whatever failed, a cycle that parsed nothing ended without a
\* statement, and the process is running.
CycleIsSound ==
    /\ \A r \in Runs : StagesInOrder(r) /\ (Active(r) => CanGoOn(r))
    /\ \A S \in AllSummaries :
           /\ S.picTime = FormatPicTime(S.lastSync)
           /\ S.vehicles = ParseResponse(S.res)
           /\ S.vehicles = <<>> => S.issued = 0 /\ S.after = S.before
    /\ mainPc \in {"connected", "initialSync", "scheduled"}

\* C20: every cycle goes through its stages in order and, when every
\* awaited call returns, ends, whatever the store and the device do; the
\* invocation goes on to the next camera and ends too.
C20_CycleTerminates ==
    /\ []CycleIsSound
    /\ \A r \in Runs : \A i \in 1..Len(Cameras) :
           (Active(r) /\ runs[r].cam = i) ~> (CyclesOf(r, i) # {})
    /\ \A r \in Runs : Active(r) ~> (runs[r].pc = "done")

\* An invocation is over in which the watermark query of the first camera
\* failed and its device threw, and the second camera's cycle inserted.
C20_Witness ==
    \E r \in Runs :
        /\ runs[r].pc = "done"
        /\ \E S \in CyclesOf(r, 1) : ~S.queryOk /\ S.res = "threw" /\ S.issued = 0
        /\ \E S \in CyclesOf(r, 2) : S.inserted = 1

\* The well-formed events that the device returned to finished cycle P: the
\* complete elements of an ok response whose capture time decodes.
WellFormedEvents(P) ==
    IF ~DeviceOk(P) THEN {}
    ELSE {plate \in {PlatesIn(P)[k] : k \in 1..Len(PlatesIn(P))} :
              Complete(plate) /\ DecodeCaptureTime(plate.captureTime) # InvalidDate}

\* Nothing that earlier cycle P was returned lies before the watermark of
\* cycle x without being in the rows that x found.
NothingPassed(P, x) ==
    \A plate \in WellFormedEvents(P) :
        DecodeCaptureTime(plate.captureTime) < x.lastSync
            => plate.picName \in PicNames(x.before)

\* C21: when a cycle has resolved its watermark, every well-formed event that
\* the device returned in an earlier cycle of the same table and whose
\* capture time is before that watermark is in the table; an event whose
\* insert failed is not passed over because a later event of its batch was
\* inserted.
C21_WatermarkNeverPasses ==
    /\ \A t \in TableNames : \A k \in 1..Len(cycles[t]) : \A j \in 1..(k - 1) :
           NothingPassed(cycles[t][j], cycles[t][k])
    /\ \A r \in Runs :
           runs[r].pc \in {"fetch", "check", "insert"}
               => \A P \in Summaries(TableOf(runs[r])) : NothingPassed(P, runs[r])

\* Cycle x resolved its watermark no later than cycle y of the same table:
\* the clock and the rows that the two queries saw tell. (Cycles that saw
\* the same clock and the same rows count both ways.)
ResolvedBefore(x, y) ==
    /\ x.cam = y.cam
    /\ \/ x.clock < y.clock
       \/ x.clock = y.clock /\ Len(x.before) <= Len(y.before)

\* C22 as stated: of two cycles of a table whose watermark queries
\* succeeded, the later one resolves a watermark that is not before the
\* earlier one's.
C22_WatermarkMonotone ==
    \A x, y \in Resolved :
        ResolvedBefore(x, y) /\ x.queryOk /\ y.queryOk
            => x.lastSync <= y.lastSync

\* C22, amended: the same, when the earlier query found rows in the table;
\* the rows it found are still there, in place, when the later query reads.
C22_WatermarkMonotoneOnceRows ==
    \A x, y \in Resolved :
        ResolvedBefore(x, y) /\ x.queryOk /\ y.queryOk /\ x.before # <<>>
            => /\ x.lastSync <= y.lastSync
               /\ SubSeq(y.before, 1, Len(x.before)) = x.before

\* A cycle found rows, rows were appended after it, and a later cycle of the
\* table resolved a later watermark.
C22_Witness ==
    \E x, y \in Resolved :
        /\ ResolvedBefore(x, y) /\ x.queryOk /\ y.queryOk
        /\ x.before # <<>> /\ Len(y.before) > Len(x.before)
        /\ x.lastSync < y.lastSync

\* The table of the camera whose cycle invocation r is in.
OwnTable(r) == Cameras[runs[r].cam].tableName

\* The step of invocation r, if this step is one, touches its own table
\* only: the watermark is read from it, the existence check looks in it, the
\* row is appended to it, and every other table is left as it is.
OwnTableOnly(r) ==
    runs'[r] # runs[r] /\ runs[r].cam # 0
        => LET own == OwnTable(r)
               rn == runs[r]
           IN  /\ \A t \in TableNames \ {own} : table'[t] = table[t]
               /\ rn.pc = "getLastSyncTime"
                      => /\ runs'[r].before = table[own]
                         /\ runs'[r].queryOk /\ table[own] # <<>>
                                => runs'[r].lastSync = MaxCaptureInstant(table[own])
                         /\ table' = table
               /\ rn.pc = "fetch" => table' = table
               /\ rn.pc = "check"
                      => /\ table' = table
                         /\ runs'[r].pc = "insert"
                                => rn.vehicles[rn.idx].picName \notin PicNames(table[own])
                         /\ storeFaults' = storeFaults
                              /\ rn.vehicles[rn.idx].picName \notin PicNames(table[own])
                                => runs'[r].pc = "insert" /\ runs'[r].cam = rn.cam
               /\ rn.pc = "insert"
                      => \/ table'[own] = table[own]
                         \/ table'[own] = Append(table[own], RowOf(rn.vehicles[rn.idx]))

\* C23: every step of a cycle reads the watermark from, checks existence in
\* and inserts into the table of the cycle's own camera, and leaves the
\* tables of the other cameras unchanged.
C23_PerSourceTableFrame == [][\A r \in Runs : OwnTableOnly(r)]_vars

\* The cycle of the second camera inserted pic1 into its table after the
\* cycle of the first camera, in the same invocation, had inserted pic1 into
\* its own: each table has its one row.
C23_Witness ==
    \E r \in Runs :
        /\ \E S \in CyclesOf(r, 1) : S.before = <<>> /\ S.inserted = 1
        /\ \E S \in CyclesOf(r, 2) : S.before = <<>> /\ S.inserted = 1
        /\ \A t \in TableNames : Len(table[t]) = 1 /\ table[t][1].PicName = "pic1"

====
